---- MODULE Spec2Model ----
(***************************************************************************)
(* A model of app.py: the Dash application that ranks regions on their     *)
(* social determinants of health, dumps the ranks to assets/rank_data.json *)
(* and colours an SVG map from them in a client-side callback.             *)
(*                                                                         *)
(* Text is a sequence of one-character strings, so that the regular        *)
(* expression of the cleaning step and the float parse are computed.       *)
(* A float is a record [nan, v]: NaN compares unequal to everything, and   *)
(* the numbers of the model are the non-negative integers.                 *)
(***************************************************************************)
EXTENDS Integers, Sequences, FiniteSets, TLC

VARIABLES
    csv,                  \* the table stored in data.csv
    artifact,             \* assets/rank_data.json: [exists, content]
    proc,                 \* per server process: pc, the frames it loaded, what it saw
    starts,               \* number of server startups so far
    writeLog,             \* the tables the artifact was written from, in order
    localStorage,         \* the browser's 'rank_data' item: [present, data]
    svgLoaded,            \* whether #svg-container has a contentDocument
    field,                \* value of the field-dropdown
    n_intervals,          \* n_intervals of the svg-loader Interval
    panel,                \* innerHTML of #area-details
    fill,                 \* style.fill of each SVG group
    onclick,              \* group.onclick closures: [installed, data]
    outsideClickHandler,  \* window._outsideClickHandler: [installed, areas]
    rendered,             \* whether the Dash renderer has made its initial call
    lastEvent,            \* the path the last browser event took through the code
    fresh,                \* history: a region click rendered details and no callback
                          \* invocation or outside click has happened since
    prevShown             \* history: the panel showed details before the last event

vars == <<csv, artifact, proc, starts, writeLog, localStorage, svgLoaded, field,
          n_intervals, panel, fill, onclick, outsideClickHandler, rendered, lastEvent,
          fresh, prevShown>>

serverVars == <<csv, artifact, proc, starts, writeLog>>

pageVars == <<svgLoaded, field, n_intervals, panel, fill, onclick, outsideClickHandler,
              rendered, lastEvent, fresh, prevShown>>

browserVars == <<localStorage, pageVars>>

---------------------------------------------------------------------------
(* Bounds of the model *)

MaxRegions == 3

MaxStartups == 3

(* Program constants *)

maxRank == 14

totalUnits == 14

max_intervals == 10

MinShade == 50

MaxShade == 255

---------------------------------------------------------------------------
(* Floats *)

NaN == [nan |-> TRUE, v |-> 0]

Float(x) == [nan |-> FALSE, v |-> x]

\* IEEE comparison: every comparison with NaN is false.
FloatGt(x, y) == ~x.nan /\ ~y.nan /\ x.v > y.v

FloatEq(x, y) == ~x.nan /\ ~y.nan /\ x.v = y.v

---------------------------------------------------------------------------
(* The polarity table *)

SDoH_SIGNS ==
    [f \in {"% No Highschool diploma", "% Highschool", "% Postsecondary",
            "% of Children in 1-Parent families", "Median after tax income (in 2020)",
            "% Received COVID-19 benefits", "% Low-income (after taxes)",
            "% Spending >30% income on housing", "Unemployment Rate"} |->
        IF f \in {"% Postsecondary", "Median after tax income (in 2020)"}
        THEN "Positive" ELSE "Negative"]

---------------------------------------------------------------------------
(* Input tables *)

AreaNames == <<"RegionA", "RegionB", "RegionC", "RegionD", "RegionE">>

\* Raw cells of the file: empty, a lone symbol, a percentage, an amount.
RawCells == { <<>>, <<"$">>, <<"5", "0", "%">>, <<"$", "3", "0", ",", "0", "0", "0">> }

\* The keys generate_rank_json writes beside the per-field maps.
ReservedKeys == {"areas", "all_fields", "raw_values", "stats", "field_signs"}

FieldNames == {"% Postsecondary", "Unemployment Rate", "Population"} \cup ReservedKeys

FieldLists ==
    { <<f>> : f \in FieldNames }
    \cup { <<"% Postsecondary", "Unemployment Rate">>, <<"Population", "stats">> }

Table(n, flds, cells) ==
    [Area |-> [i \in 1..n |-> AreaNames[i]], fields |-> flds, cells |-> cells]

TablesOf(n, flds, cellSet) ==
    { Table(n, flds, c) : c \in [1..n -> [1..Len(flds) -> cellSet]] }

---------------------------------------------------------------------------
(* clean_and_rank_data *)

\* pd.read_csv: an empty cell is read as NaN, any other cell as its text.
read_csv(t) ==
    [Area |-> t.Area, fields |-> t.fields,
     val |-> [i \in DOMAIN t.Area |-> [j \in DOMAIN t.fields |->
                 IF t.cells[i][j] = <<>> THEN [nan |-> TRUE, s |-> <<>>]
                 ELSE [nan |-> FALSE, s |-> t.cells[i][j]]]]]

NotSymbol(c) == c \notin {"$", ",", "%"}

\* .replace(r'[\$,%,]', '', regex=True)
regex_replace(s) == SelectSeq(s, NotSymbol)

DigitValue(c) ==
    CASE c = "0" -> 0 [] c = "1" -> 1 [] c = "2" -> 2 [] c = "3" -> 3 [] c = "4" -> 4
      [] c = "5" -> 5 [] c = "6" -> 6 [] c = "7" -> 7 [] c = "8" -> 8 [] c = "9" -> 9

RECURSIVE astype_float(_)
\* float() of a string of digits
astype_float(s) ==
    IF s = <<>> THEN 0
    ELSE 10 * astype_float(SubSeq(s, 1, Len(s) - 1)) + DigitValue(s[Len(s)])

\* One cell through line 45: NaN is matched by neither replace and stays NaN.
CleanCell(x) ==
    IF x.nan THEN NaN
    ELSE LET r == regex_replace(x.s)
             z == IF r = <<>> THEN <<"0">> ELSE r
         IN  Float(astype_float(z))

\* Series.rank(ascending=False, method='min'): NaN keeps NaN (na_option='keep').
rank(col, i) ==
    IF col[i].nan THEN NaN
    ELSE Float(1 + Cardinality({k \in DOMAIN col : FloatGt(col[k], col[i])}))

clean_and_rank_data(t) ==
    LET raw == read_csv(t)
        df == [Area |-> raw.Area, fields |-> raw.fields,
               val |-> [i \in DOMAIN raw.Area |-> [j \in DOMAIN raw.fields |->
                           CleanCell(raw.val[i][j])]]]
        ranks_df == [Area |-> df.Area, fields |-> df.fields,
                     val |-> [i \in DOMAIN df.Area |-> [j \in DOMAIN df.fields |->
                                 rank([k \in DOMAIN df.Area |-> df.val[k][j]], i)]]]
    IN  [df |-> df, ranks_df |-> ranks_df, fields |-> df.fields]

---------------------------------------------------------------------------
(* generate_rank_json *)

Range(s) == { s[i] : i \in DOMAIN s }

\* df.loc[df["Area"] == area, ...].values[0]: the first row of that area
FirstRow(df, a) == CHOOSE i \in DOMAIN df.Area :
                       df.Area[i] = a /\ \A k \in DOMAIN df.Area : df.Area[k] = a => i <= k

\* dict(zip(df["Area"], ...)): the last row of that area
LastRow(df, a) == CHOOSE i \in DOMAIN df.Area :
                      df.Area[i] = a /\ \A k \in DOMAIN df.Area : df.Area[k] = a => i >= k

Column(frame, f) == CHOOSE j \in DOMAIN frame.fields : frame.fields[j] = f

\* astype(int) and int() raise on NaN
Raises(ranks_df) ==
    \E i \in DOMAIN ranks_df.Area : \E j \in DOMAIN ranks_df.fields : ranks_df.val[i][j].nan

RECURSIVE SumTo(_, _, _)
SumTo(df, j, n) == IF n = 0 THEN 0 ELSE SumTo(df, j, n - 1) + df.val[n][j].v

\* df[field].mean(): the quotient sum / count, kept as the pair
mean(df, j) == [sum |-> SumTo(df, j, Len(df.Area)), count |-> Len(df.Area)]

all_field_ranks(df, ranks_df) ==
    [f \in Range(df.fields) |->
        [shape |-> "object of numbers",
         val |-> [a \in Range(df.Area) |-> ranks_df.val[LastRow(df, a)][Column(df, f)].v]]]

all_ranks_by_area(df, ranks_df) ==
    [a \in Range(df.Area) |->
        [f \in Range(df.fields) |-> ranks_df.val[FirstRow(df, a)][Column(df, f)].v]]

stats(df) == [f \in Range(df.fields) |-> [avg |-> mean(df, Column(df, f))]]

raw_values(df) ==
    [a \in Range(df.Area) |->
        [f \in Range(df.fields) |-> df.val[FirstRow(df, a)][Column(df, f)].v]]

RECURSIVE unique(_)
\* df["Area"].dropna().unique().tolist(): first occurrences, in order
unique(s) ==
    IF s = <<>> THEN <<>>
    ELSE LET front == SubSeq(s, 1, Len(s) - 1)
         IN  IF s[Len(s)] \in Range(front) THEN unique(front)
             ELSE Append(unique(front), s[Len(s)])

\* A dict display {k: v, ..., **d}: the keys of d come last and win.
DictUnpack(base, d) ==
    [k \in DOMAIN base \cup DOMAIN d |-> IF k \in DOMAIN d THEN d[k] ELSE base[k]]

\* The object json.dump writes. Each top-level value carries its JSON shape.
generate_rank_json(df, ranks_df) ==
    DictUnpack(
        [areas |-> [shape |-> "array", val |-> unique(df.Area)],
         all_fields |-> [shape |-> "object of objects",
                         val |-> all_ranks_by_area(df, ranks_df)],
         raw_values |-> [shape |-> "object of objects", val |-> raw_values(df)],
         stats |-> [shape |-> "object of objects", val |-> stats(df)],
         field_signs |-> [shape |-> "object of strings", val |-> SDoH_SIGNS]],
        all_field_ranks(df, ranks_df))

NoFile == [exists |-> FALSE, content |-> [k \in {"none"} |-> 0]]

File(b) == [exists |-> TRUE, content |-> b]

---------------------------------------------------------------------------
(* Server startup: the module-level code of lines 105-108 *)

Procs == {1, 2}

NoFrames == [df |-> <<>>, ranks_df |-> <<>>, fields |-> <<>>]

Idle == [pc |-> "start", data |-> NoFrames, read |-> <<>>, sawPresent |-> FALSE]

\* Mutant of ShouldExport: the bundle is regenerated at every startup.
ShouldExportAlways(a) == TRUE

\* if not os.path.exists(JSON_PATH)
ShouldExport(a) == ~a.exists

\* Mutant of WriteFile: an exclusive create, which keeps a file that is there.
WriteFileExclusive(old, content) == IF old.exists THEN old ELSE File(content)

\* open(output_path, 'w') and json.dump: the file is created or overwritten
WriteFile(old, content) == File(content)

\* df, ranks_df, fields = clean_and_rank_data(DATA_PATH)
Start(p) ==
    /\ proc[p].pc = "start"
    /\ starts < MaxStartups
    /\ proc' = [proc EXCEPT ![p] = [pc |-> "loaded", data |-> clean_and_rank_data(csv),
                                    read |-> csv, sawPresent |-> artifact.exists]]
    /\ starts' = starts + 1
    /\ UNCHANGED <<csv, artifact, writeLog, browserVars>>

CheckExists(p) ==
    /\ proc[p].pc = "loaded"
    /\ proc' = [proc EXCEPT ![p].pc = IF ShouldExport(artifact) THEN "export" ELSE "serving"]
    /\ UNCHANGED <<csv, artifact, starts, writeLog, browserVars>>

\* generate_rank_json(df, ranks_df, fields): the casts of lines 56-67 raise before
\* the file is opened, and the uncaught exception ends the process.
Export(p) ==
    /\ proc[p].pc = "export"
    /\ IF Raises(proc[p].data.ranks_df)
       THEN /\ proc' = [proc EXCEPT ![p].pc = "crashed"]
            /\ UNCHANGED <<artifact, writeLog>>
       ELSE /\ artifact' = WriteFile(artifact,
                               generate_rank_json(proc[p].data.df, proc[p].data.ranks_df))
            /\ writeLog' = Append(writeLog, proc[p].read)
            /\ proc' = [proc EXCEPT ![p].pc = "serving"]
    /\ UNCHANGED <<csv, starts, browserVars>>

\* The process ends; the next run of the program is a new startup.
Stop(p) ==
    /\ proc[p].pc \in {"serving", "crashed"}
    /\ proc' = [proc EXCEPT ![p] = Idle]
    /\ UNCHANGED <<csv, artifact, starts, writeLog, browserVars>>

\* The script of index_string: fetch the artifact and store it in localStorage.
Fetch ==
    /\ \E p \in Procs : proc[p].pc = "serving"
    /\ artifact.exists
    /\ ~localStorage.present
    /\ localStorage' = [present |-> TRUE, data |-> artifact.content]
    /\ UNCHANGED <<serverVars, pageVars>>

NoItem == [present |-> FALSE, data |-> [k \in {"none"} |-> 0]]

NoHandler == [installed |-> FALSE, data |-> [k \in {"none"} |-> 0]]

\* innerHTML = ""
EmptyPanel == [shown |-> FALSE, area |-> "", rows |-> [f \in {} |-> 0]]

\* style.fill = ''
NoFill == [set |-> FALSE, rgb |-> <<0, 0, 0>>]

\* The ids of the groups of the SVG map: one group per region.
SvgIds == Range(AreaNames)

BrowserInit ==
    /\ localStorage = NoItem
    /\ svgLoaded = FALSE
    /\ field = "None"
    /\ n_intervals = 0
    /\ panel = EmptyPanel
    /\ fill = [a \in SvgIds |-> NoFill]
    /\ onclick = NoHandler
    /\ outsideClickHandler = NoHandler
    /\ rendered = FALSE
    /\ lastEvent = "none"
    /\ fresh = FALSE
    /\ prevShown = FALSE

ServerInit ==
    /\ artifact = NoFile
    /\ proc = [p \in Procs |-> Idle]
    /\ starts = 0
    /\ writeLog = <<>>

---------------------------------------------------------------------------
(* Spec: one server process takes any table through clean_and_rank_data and *)
(* generate_rank_json, and the page reads the bundle back.                  *)

Init ==
    /\ \E n \in 1..MaxRegions : \E flds \in FieldLists : csv \in TablesOf(n, flds, RawCells)
    /\ ServerInit
    /\ BrowserInit

Next ==
    \/ Start(1)
    \/ CheckExists(1)
    \/ Export(1)
    \/ Fetch

Spec == Init /\ [][Next]_vars

---------------------------------------------------------------------------
(* The client-side callback *)

Undefined == [shape |-> "undefined", val |-> 0]

\* rankData?.[key]
Get(data, key) == IF key \in DOMAIN data THEN data[key] ELSE Undefined

\* for (const area of areas): an array or the [] default iterates, an object throws
Iterable(a) == a.shape \in {"array", "undefined"}

AreasOf(data) ==
    LET a == Get(data, "areas") IN IF a.shape = "array" THEN a.val ELSE <<>>

\* fieldRanks[area], 0 standing for undefined
fieldRank(data, f, area) ==
    LET fr == IF f = "None" THEN Undefined ELSE Get(data, f)
    IN  IF fr.shape = "object of numbers" /\ area \in DOMAIN fr.val THEN fr.val[area] ELSE 0

\* fieldSigns?.[f] || "Positive"
sign(data, f) ==
    LET fs == Get(data, "field_signs")
    IN  IF fs.shape \in {"undefined", "array"} THEN "Positive"
        ELSE IF f \notin DOMAIN fs.val THEN "Positive"
        ELSE IF fs.shape = "object of strings" THEN fs.val[f]
        ELSE "not a string"

\* Math.floor(x / y) for x >= 0, y > 0
Floor(x, y) == x \div y

\* 50 + Math.floor((255 - 50) * (1 - (maxRank - rank) / (maxRank - 1))),
\* the expression in the parentheses brought to the denominator maxRank - 1
intensity(r) ==
    MinShade + Floor((MaxShade - MinShade) * ((maxRank - 1) - (maxRank - r)), maxRank - 1)

fillOf(data, f, area) ==
    LET r == fieldRank(data, f, area)
    IN  IF r # 0
        THEN [set |-> TRUE,
              rgb |-> IF sign(data, f) = "Positive" THEN <<0, intensity(r), 0>>
                      ELSE <<intensity(r), 0, 0>>]
        ELSE NoFill

\* Mutant of Cleared: the callback leaves the panel as it is.
ClearedNot(p) == p

\* target.innerHTML = "" of line 165
Cleared(p) == EmptyPanel

\* The body of the callback, from line 160 to its return.
Callback(f) ==
    /\ prevShown' = panel.shown
    /\ fresh' = FALSE
    /\ IF ~svgLoaded
       THEN /\ lastEvent' = "no svg"
            /\ UNCHANGED <<panel, fill, onclick, outsideClickHandler>>
       ELSE /\ panel' = Cleared(panel)
            /\ IF ~localStorage.present
               THEN /\ lastEvent' = "no data"
                    /\ UNCHANGED <<fill, onclick, outsideClickHandler>>
               ELSE LET data == localStorage.data IN
                    IF ~Iterable(Get(data, "areas"))
                    THEN /\ lastEvent' = "threw"
                         /\ UNCHANGED <<fill, onclick, outsideClickHandler>>
                    ELSE /\ lastEvent' = "painted"
                         /\ fill' = [a \in SvgIds |->
                                        IF a \in Range(AreasOf(data))
                                        THEN fillOf(data, f, a) ELSE fill[a]]
                         /\ onclick' = [installed |-> TRUE, data |-> data]
                         /\ outsideClickHandler' = [installed |-> TRUE, data |-> data]

\* The renderer's first call of the callback, with no field and n_intervals = 0.
InitialCall ==
    /\ ~rendered
    /\ rendered' = TRUE
    /\ Callback(field)
    /\ UNCHANGED <<serverVars, localStorage, svgLoaded, field, n_intervals>>

Options == UNION { Range(proc[p].data.fields) : p \in {q \in Procs : proc[q].pc = "serving"} }

DropdownChange(f) ==
    /\ rendered
    /\ f \in Options \cup {"None"}
    /\ f # field
    /\ field' = f
    /\ Callback(f)
    /\ UNCHANGED <<serverVars, localStorage, svgLoaded, n_intervals, rendered>>

IntervalTick ==
    /\ rendered
    /\ n_intervals < max_intervals
    /\ n_intervals' = n_intervals + 1
    /\ Callback(field)
    /\ UNCHANGED <<serverVars, localStorage, svgLoaded, field, rendered>>

\* The <object> element finishes loading the map.
SvgLoad ==
    /\ ~svgLoaded
    /\ svgLoaded' = TRUE
    /\ UNCHANGED <<serverVars, localStorage, field, n_intervals, panel, fill, onclick,
                   outsideClickHandler, rendered, lastEvent, fresh, prevShown>>

\* The segments of one bar: i from 0 below totalUnits, filled when i <= totalUnits - rank
filledSegments(r) == Cardinality({i \in 0..(totalUnits - 1) : i <= totalUnits - r})

\* rawValues?.[area]?.[fieldName], then toFixed(2) or "N/A"
formattedValue(data, area, fieldName) ==
    LET rv == Get(data, "raw_values")
    IN  IF /\ rv.shape = "object of objects"
           /\ area \in DOMAIN rv.val
           /\ fieldName \in DOMAIN rv.val[area]
        THEN [defined |-> TRUE, v |-> rv.val[area][fieldName]]
        ELSE [defined |-> FALSE, v |-> 0]

barRows(data, area) ==
    LET af == Get(data, "all_fields")
    IN  IF af.shape = "object of objects"
        THEN [fieldName \in DOMAIN af.val[area] |->
                 [units |-> totalUnits,
                  filled |-> filledSegments(af.val[area][fieldName]),
                  color |-> IF sign(data, fieldName) = "Positive" THEN "green" ELSE "red",
                  value |-> formattedValue(data, area, fieldName)]]
        ELSE [fieldName \in {} |-> 0]   \* for ... in over a number: no rows

\* allFieldsRanks?.[area] is truthy
hasRanks(data, area) ==
    LET af == Get(data, "all_fields")
    IN  /\ af.shape \in {"object of objects", "object of numbers"}
        /\ area \in DOMAIN af.val

\* A click on the group of a region. Its onclick stops the propagation; without
\* an onclick the event reaches the listener of the document, which clears the panel
\* unless the id of the target is one of the areas.
RegionClick(area) ==
    /\ svgLoaded
    /\ area \in SvgIds
    /\ prevShown' = panel.shown
    /\ IF onclick.installed /\ area \in Range(AreasOf(onclick.data))
       THEN IF hasRanks(onclick.data, area)
            THEN /\ panel' = [shown |-> TRUE, area |-> area,
                              rows |-> barRows(onclick.data, area)]
                 /\ lastEvent' = "region click"
                 /\ fresh' = TRUE
            ELSE /\ lastEvent' = "region click ignored"
                 /\ UNCHANGED <<panel, fresh>>
       ELSE IF outsideClickHandler.installed
               /\ area \notin Range(AreasOf(outsideClickHandler.data))
            THEN /\ panel' = EmptyPanel
                 /\ lastEvent' = "outside click"
                 /\ fresh' = FALSE
            ELSE /\ lastEvent' = "region click ignored"
                 /\ UNCHANGED <<panel, fresh>>
    /\ UNCHANGED <<serverVars, localStorage, svgLoaded, field, n_intervals, fill, onclick,
                   outsideClickHandler, rendered>>

\* A click in the map outside every region.
OutsideClick ==
    /\ svgLoaded
    /\ prevShown' = panel.shown
    /\ fresh' = FALSE
    /\ lastEvent' = "outside click"
    /\ panel' = IF outsideClickHandler.installed THEN EmptyPanel ELSE panel
    /\ UNCHANGED <<serverVars, localStorage, svgLoaded, field, n_intervals, fill, onclick,
                   outsideClickHandler, rendered>>

---------------------------------------------------------------------------
(* SpecStartup: two server processes start, stop and start again while the *)
(* table in data.csv is edited.                                            *)

Cell50 == <<"5", "0", "%">>

Cell30000 == <<"$", "3", "0", ",", "0", "0", "0">>

Cell7 == <<"7">>

Cell0 == <<"$">>

StartupTables ==
    { Table(2, <<"Unemployment Rate">>, <<<<Cell50>>, <<Cell30000>>>>),
      Table(2, <<"Unemployment Rate">>, <<<<Cell30000>>, <<Cell50>>>>),
      Table(2, <<"Unemployment Rate">>, <<<<Cell50>>, <<<<>>>>>>) }

EditSource ==
    /\ \E t \in StartupTables : t # csv /\ csv' = t
    /\ UNCHANGED <<artifact, proc, starts, writeLog, browserVars>>

StartupInit ==
    /\ csv \in StartupTables
    /\ ServerInit
    /\ BrowserInit

StartupNext ==
    \/ \E p \in Procs : Start(p)
    \/ \E p \in Procs : CheckExists(p)
    \/ \E p \in Procs : Export(p)
    \/ \E p \in Procs : Stop(p)
    \/ EditSource

SpecStartup == StartupInit /\ [][StartupNext]_vars

---------------------------------------------------------------------------
(* SpecUI: a server that has exported the bundle of its table serves the   *)
(* page; the browser loads the map, fetches the bundle and handles events. *)

\* Columns of cleaned values 30000, 50, 7, 0 and 50, 50, 7, 30000
ColumnPatterns ==
    { <<Cell30000, Cell50, Cell7, Cell0, Cell7>>, <<Cell50, Cell50, Cell7, Cell30000, Cell0>> }

UiFieldLists ==
    { <<"% Postsecondary", "Unemployment Rate">>, <<"Unemployment Rate", "field_signs">>,
      <<"Population", "all_fields">>, <<"areas">> }

UiTables(n) ==
    { Table(n, flds, [i \in 1..n |-> [j \in 1..Len(flds) |-> cols[j][i]]]) :
        flds \in UiFieldLists, cols \in [1..2 -> ColumnPatterns] }

UiInit ==
    /\ \E n \in 1..MaxRegions : csv \in UiTables(n)
    /\ LET r == clean_and_rank_data(csv) IN
       /\ artifact = WriteFile(NoFile, generate_rank_json(r.df, r.ranks_df))
       /\ proc = [p \in Procs |-> IF p = 1
                                   THEN [pc |-> "serving", data |-> r, read |-> csv,
                                         sawPresent |-> FALSE]
                                   ELSE Idle]
    /\ starts = 1
    /\ writeLog = <<csv>>
    /\ BrowserInit

UiNext ==
    \/ Fetch
    \/ SvgLoad
    \/ InitialCall
    \/ \E f \in FieldNames \cup {"None"} : DropdownChange(f)
    \/ IntervalTick
    \/ \E a \in SvgIds : RegionClick(a)
    \/ OutsideClick

SpecUI == UiInit /\ [][UiNext]_vars

---------------------------------------------------------------------------
(* Properties checked under Spec *)

Loaded(p) == proc[p].pc # "start"

\* C1: for every table and every field, clean_and_rank_data gives each region the
\* rank 1 + (number of regions whose cleaned value is strictly greater); equal
\* values get equal ranks, a strictly greater value never gets a larger rank
\* number, and no rank exceeds the number of regions.
C1_RankIsOnePlusGreater ==
    \A p \in Procs : Loaded(p) =>
        LET df == proc[p].data.df
            ranks_df == proc[p].data.ranks_df
        IN  \A i \in DOMAIN df.Area : \A j \in DOMAIN df.fields :
              /\ ranks_df.val[i][j] =
                    Float(1 + Cardinality({k \in DOMAIN df.Area :
                                              FloatGt(df.val[k][j], df.val[i][j])}))
              /\ ranks_df.val[i][j].v <= Len(df.Area)
              /\ \A k \in DOMAIN df.Area :
                    /\ FloatEq(df.val[k][j], df.val[i][j])
                          => ranks_df.val[k][j] = ranks_df.val[i][j]
                    /\ FloatGt(df.val[k][j], df.val[i][j])
                          => ranks_df.val[k][j].v <= ranks_df.val[i][j].v

ScenarioTable ==
    Table(3, <<"Population">>, <<<<Cell50>>, <<Cell30000>>, <<<<>>>>>>)

\* C2: cleaning strips $, % and , from every cell and treats an empty cell as 0.0,
\* so a region whose cell is empty is ranked and exported as if its value were 0:
\* the cells "50%", "$30,000", "" clean to 50, 30000, 0 and the ranks written to
\* the bundle are 2, 1, 3.
C2_EmptyCellIsZero ==
    \A p \in Procs : Loaded(p) =>
        LET t == proc[p].read
            df == proc[p].data.df
        IN  /\ \A i \in DOMAIN t.Area : \A j \in DOMAIN t.fields :
                  LET stripped == regex_replace(t.cells[i][j])
                  IN  df.val[i][j] =
                         Float(astype_float(IF stripped = <<>> THEN <<"0">> ELSE stripped))
            /\ proc[p].pc # "crashed"
            /\ (t = ScenarioTable /\ proc[p].pc = "serving") =>
                  /\ artifact.exists
                  /\ artifact.content["Population"].val =
                        [a \in {"RegionA", "RegionB", "RegionC"} |->
                            IF a = "RegionA" THEN 2 ELSE IF a = "RegionB" THEN 1 ELSE 3]

\* C8: for every table with unique region names and any set of field names, the
\* bundle read back gives, under their own keys, the region list, the by-region
\* rank map, the per-field rank maps, the raw values, the averages and the
\* polarity table that were computed, and the two rank maps agree.
C8_RoundTrip ==
    localStorage.present =>
        LET b == localStorage.data
            r == clean_and_rank_data(csv)
            rows == DOMAIN csv.Area
            cols == DOMAIN csv.fields
        IN  /\ Get(b, "areas").shape = "array"
            /\ Get(b, "areas").val = csv.Area
            /\ Get(b, "field_signs").shape = "object of strings"
            /\ Get(b, "field_signs").val = SDoH_SIGNS
            /\ Get(b, "all_fields").shape = "object of objects"
            /\ Get(b, "raw_values").shape = "object of objects"
            /\ Get(b, "stats").shape = "object of objects"
            /\ \A j \in cols :
                  /\ Get(b, csv.fields[j]).shape = "object of numbers"
                  /\ DOMAIN b["stats"].val = Range(csv.fields)
                  /\ b["stats"].val[csv.fields[j]].avg.sum * Len(csv.Area)
                        = SumTo(r.df, j, Len(csv.Area)) * b["stats"].val[csv.fields[j]].avg.count
                  /\ \A i \in rows :
                        /\ b["all_fields"].val[csv.Area[i]][csv.fields[j]] = r.ranks_df.val[i][j].v
                        /\ b[csv.fields[j]].val[csv.Area[i]] = r.ranks_df.val[i][j].v
                        /\ b["raw_values"].val[csv.Area[i]][csv.fields[j]] = r.df.val[i][j].v

---------------------------------------------------------------------------
(* Properties checked under SpecStartup *)

BundleOf(p) == generate_rank_json(proc[p].data.df, proc[p].data.ranks_df)

\* C6: the artifact goes from absent to present and never back; a startup enters
\* the export only when its check finds no artifact; and a startup that began
\* with the artifact present never exports and none of its steps changes the
\* artifact, whatever table it loaded.
C6_ExportOnlyWhenAbsent ==
    [][ /\ artifact.exists => artifact'.exists
        /\ \A p \in Procs :
              /\ (proc[p].pc = "loaded" /\ proc'[p].pc = "export") => ~artifact.exists
              /\ (proc[p].sawPresent /\ proc'[p] # proc[p]) =>
                    /\ artifact' = artifact
                    /\ proc'[p].pc # "export" ]_vars

\* C6 witness: a startup that found the artifact present is serving a table whose
\* bundle differs from the artifact it left in place.
C6_StaleArtifactServed ==
    \E p \in Procs :
        /\ proc[p].pc = "serving"
        /\ proc[p].sawPresent
        /\ ~Raises(proc[p].data.ranks_df)
        /\ artifact.exists
        /\ artifact.content # BundleOf(p)

\* C9: the check and the write are not one atomic step: a process that passed
\* the check writes its own bundle whatever the artifact has become since, so
\* two concurrent startups can both write.
C9_WriteAfterCheckIsUnconditional ==
    [][ \A p \in Procs :
          (proc[p].pc = "export" /\ proc'[p].pc = "serving") =>
              /\ artifact' = File(BundleOf(p))
              /\ writeLog' = Append(writeLog, proc[p].read) ]_vars

\* C9 witness: two startups in all, and the artifact was written twice, from two
\* different tables.
C9_TwoWriters ==
    /\ starts = 2
    /\ Len(writeLog) = 2
    /\ writeLog[1] # writeLog[2]
    /\ artifact.exists

---------------------------------------------------------------------------
(* Properties checked under SpecUI *)

Painted == lastEvent = "painted" /\ field # "None"

RegionCount == Len(csv.Area)

\* The rank clean_and_rank_data gives region i in field f
RankIn(f, i) == clean_and_rank_data(csv).ranks_df.val[i][Column(csv, f)].v

\* The one channel of a fill that is not 0
Shade(x) == x.rgb[1] + x.rgb[2] + x.rgb[3]

\* The polarity the table declares for a field, Positive when it declares none
Declared(f) == IF f \in DOMAIN SDoH_SIGNS THEN SDoH_SIGNS[f] ELSE "Positive"

\* C3: a region of rank r among maxRank regions is painted with intensity
\* 50 + floor(205 * (maxRank - r) / (maxRank - 1)) when maxRank > 1, so rank 1 gets
\* 255 and the worst rank 50; with one region the intensity is 255.
C3_BestRankBrightest ==
    Painted =>
        \A i \in DOMAIN csv.Area :
            /\ fill[csv.Area[i]].set
            /\ Shade(fill[csv.Area[i]]) =
                  IF RegionCount > 1
                  THEN 50 + (205 * (RegionCount - RankIn(field, i))) \div (RegionCount - 1)
                  ELSE 255

\* C4: for a table of N >= 1 regions the maxRank of the colour computation is N,
\* and the intensity painted for every rank is an integer in [50, 255].
C4_MaxRankIsRegionCount ==
    Painted =>
        /\ maxRank = RegionCount
        /\ \A i \in DOMAIN csv.Area : Shade(fill[csv.Area[i]]) \in 50..255

Clamp(x, lo, hi) == IF x < lo THEN lo ELSE IF x > hi THEN hi ELSE x

\* C5: in the details popup every field of the clicked region has a bar of
\* totalUnits segments, totalUnits being the number of regions, of which
\* totalUnits - rank + 1, clamped to [0, totalUnits], are filled.
C5_BarUnitsAreRegionCount ==
    panel.shown =>
        /\ DOMAIN panel.rows = Range(csv.fields)
        /\ \A f \in DOMAIN panel.rows :
              LET i == FirstRow(csv, panel.area) IN
              /\ panel.rows[f].units = RegionCount
              /\ panel.rows[f].filled =
                    Clamp(RegionCount - RankIn(f, i) + 1, 0, RegionCount)

\* C7: the renderer uses the polarity the table declares for the field, Positive
\* when it declares none: a Positive field is painted in the green channel and a
\* Negative one in the red channel, the other channels 0, and each bar of the
\* popup has the colour of its own field's polarity.
C7_DeclaredPolarity ==
    /\ Painted =>
          \A i \in DOMAIN csv.Area :
              LET x == fill[csv.Area[i]] IN
              /\ x.set
              /\ IF Declared(field) = "Positive"
                 THEN x.rgb[1] = 0 /\ x.rgb[2] > 0 /\ x.rgb[3] = 0
                 ELSE x.rgb[1] > 0 /\ x.rgb[2] = 0 /\ x.rgb[3] = 0
    /\ panel.shown =>
          \A f \in DOMAIN panel.rows :
              panel.rows[f].color = IF Declared(f) = "Positive" THEN "green" ELSE "red"

\* C10: every invocation of the callback that finds the map loaded leaves the
\* panel empty, with or without rank data in localStorage, and the panel shows
\* details only while no callback invocation and no outside click has happened
\* since the region click that rendered them.
C10_DetailsOnlySinceLastClick ==
    /\ lastEvent \in {"no data", "threw", "painted"} => ~panel.shown
    /\ panel.shown => fresh

\* C10 witness: a callback invocation emptied a panel that showed details.
C10_CallbackEmptiedDetails ==
    /\ lastEvent = "painted"
    /\ prevShown
    /\ ~panel.shown

====
